---------------------------- MODULE Spec2Model ----------------------------
(***************************************************************************)
(* Audiobook WAV export of src-tauri/src/lib.rs.                           *)
(*                                                                         *)
(* Three parts of the program are modelled, each over its own variables   *)
(* (the normalizer, the export command and the child's script), under     *)
(* four specifications:                                                    *)
(*   SpecNorm    the parameter normalizer (map_audio_rate_to_sapi,         *)
(*               map_audio_volume_to_sapi) applied to a grid of rates and  *)
(*               volumes;                                                  *)
(*   Spec        export_audiobook_wav, one invocation at a time, over      *)
(*               bounded texts, output paths and child results;            *)
(*   SpecConc    export_audiobook_wav, several invocations interleaved in  *)
(*               one application process;                                  *)
(*   SpecScript  AUDIO_EXPORT_SCRIPT, the script the child process runs.   *)
(*                                                                         *)
(* Strings are sequences of one-character strings.  f32 values are exact   *)
(* rationals <<numerator, denominator>> with a positive denominator; the   *)
(* grids hold dyadic values only, on which every f32 operation of the      *)
(* normalizer is exact.                                                    *)
(***************************************************************************)
EXTENDS Integers, Sequences, FiniteSets, TLC

(***************************************************************************)
(* Bounds of the model.                                                    *)
(***************************************************************************)
\* The rate and volume grids hold the multiples of 1 / 2^GridBits.
GridBits == 4

GridDen == 2 ^ GridBits

\* Longest text, output path, child stdout and child stderr.
MaxTextLen == 1

MaxPathLen == 2

MaxStdoutLen == 1

MaxStderrLen == 2

\* Concurrent invocations of the command in one application process.
NInv == 2

\* Last millisecond the system clock reaches.
MaxClock == 1

\* Most voices the speech engine has installed.
MaxVoices == 2

(***************************************************************************)
(* f32 arithmetic on exact rationals.                                      *)
(***************************************************************************)
F32(n, d) == <<n, d>>

FSub(a, b) == <<a[1] * b[2] - b[1] * a[2], a[2] * b[2]>>

FMul(a, b) == <<a[1] * b[1], a[2] * b[2]>>

\* b is positive wherever the program divides.
FDiv(a, b) == <<a[1] * b[2], a[2] * b[1]>>

FLe(a, b) == a[1] * b[2] <= b[1] * a[2]

\* f32::clamp(lo, hi)
FClamp(x, lo, hi) == IF FLe(x, lo) THEN lo ELSE IF FLe(hi, x) THEN hi ELSE x

\* f32::round: the nearest integer, halfway cases away from zero.
FRoundTrunc(x) ==
    IF x[1] >= 0 THEN x[1] \div x[2] ELSE -((-x[1]) \div x[2])

FRound(x) ==
    IF x[1] >= 0
    THEN (2 * x[1] + x[2]) \div (2 * x[2])
    ELSE -((2 * (-x[1]) + x[2]) \div (2 * x[2]))

\* `as i32` on a rounded f32: saturating at the i32 range.
AsI32(n) ==
    IF n > 2147483647 THEN 2147483647
    ELSE IF n < -2147483647 - 1 THEN -2147483647 - 1 ELSE n

(***************************************************************************)
(* Parameter normalizer.                                                   *)
(***************************************************************************)
\* A rate mapping that forgets to clamp above 2.0.
map_audio_rate_to_sapi_unclamped(rate) ==
    LET clamped == IF FLe(rate, F32(1, 2)) THEN F32(1, 2) ELSE rate
    IN  IF FLe(clamped, F32(1, 1))
        THEN AsI32(FRound(FSub(FMul(FDiv(FSub(clamped, F32(1, 2)), F32(1, 2)),
                                    F32(10, 1)), F32(10, 1))))
        ELSE AsI32(FRound(FMul(FDiv(FSub(clamped, F32(1, 1)), F32(1, 1)),
                               F32(10, 1))))

map_audio_rate_to_sapi(rate) ==
    LET clamped == FClamp(rate, F32(1, 2), F32(2, 1))
    IN  IF FLe(clamped, F32(1, 1))
        THEN AsI32(FRound(FSub(FMul(FDiv(FSub(clamped, F32(1, 2)), F32(1, 2)),
                                    F32(10, 1)), F32(10, 1))))
        ELSE AsI32(FRound(FMul(FDiv(FSub(clamped, F32(1, 1)), F32(1, 1)),
                               F32(10, 1))))

\* A volume mapping that truncates instead of rounding.
map_audio_volume_to_sapi_trunc(volume) ==
    AsI32(FRoundTrunc(FMul(FClamp(volume, F32(0, 1), F32(1, 1)), F32(100, 1))))

map_audio_volume_to_sapi(volume) ==
    AsI32(FRound(FMul(FClamp(volume, F32(0, 1), F32(1, 1)), F32(100, 1))))

\* Rates from -0.5 to 3.5 and volumes from -0.5 to 1.5.
RateGrid == {F32(k, GridDen) : k \in (-(GridDen \div 2)) .. (3 * GridDen + GridDen \div 2)}

VolumeGrid == {F32(k, GridDen) : k \in (-(GridDen \div 2)) .. (GridDen + GridDen \div 2)}


(***************************************************************************)
(* Strings.                                                                *)
(***************************************************************************)
SeqsUpTo(S, n) == UNION {[1 .. k -> S] : k \in 0 .. n}

\* char::is_whitespace, on the characters of the model.
IsWhitespace(c) == c \in {" ", "\n", "\r"}

RECURSIVE TrimStart(_)
TrimStart(s) ==
    IF s # <<>> /\ IsWhitespace(Head(s)) THEN TrimStart(Tail(s)) ELSE s

RECURSIVE TrimEnd(_)
TrimEnd(s) ==
    IF s # <<>> /\ IsWhitespace(s[Len(s)])
    THEN TrimEnd(SubSeq(s, 1, Len(s) - 1))
    ELSE s

\* str::trim
Trim(s) == TrimEnd(TrimStart(s))

\* String::from_utf8_lossy: an invalid byte becomes U+FFFD.
Utf8Lossy(bytes) ==
    [k \in 1 .. Len(bytes) |-> IF bytes[k] = "xFF" THEN "uFFFD" ELSE bytes[k]]

\* The characters of texts and paths, and the bytes a child writes.
Chars == {"a", " "}

Bytes == {"a", "\n", "xFF"}

(***************************************************************************)
(* export_audiobook_wav: values.                                           *)
(***************************************************************************)
Invs == 1 .. NInv

Ok(v) == [kind |-> "Ok", val |-> v]

Err(m) == [kind |-> "Err", val |-> m]

NoResult == [kind |-> "none", val |-> <<>>]

MSG_EMPTY_TEXT == <<"No hay texto para exportar.">>

MSG_NO_OUTPUT == <<"No se encontro la ruta de salida para el audiolibro.">>

\* Line 176: the message of the build for a system other than Windows.
MSG_UNSUPPORTED ==
    <<"La exportacion de audiolibro WAV con voces del sistema esta disponible solo en Windows por ahora.">>

StagingMsg(error) == <<"No se pudo preparar el texto para audio:", " ", error>>

SpawnMsg(error) == <<"No se pudo iniciar la exportacion de audio:", " ", error>>

FailMsg(detail) == <<"Fallo al generar WAV:", " ">> \o detail

\* format!("{:?}", status.code())
CodeDebug(code) == <<"Some(", ToString(code), ")">>

GenericDetail(code) == <<"PowerShell finalizo con codigo", " ">> \o CodeDebug(code)

\* std::process::id() of the application process.
Pid == "4242"

\* duration_since(UNIX_EPOCH).map(as_millis).unwrap_or(0)
Stamp(clock) == IF clock < 0 THEN 0 ELSE clock

\* A file name built from the process id alone.
build_temp_audio_text_path_nostamp(clock) ==
    <<"tmp/", "writewme-audio-", Pid, ".txt">>

build_temp_audio_text_path(clock) ==
    <<"tmp/", "writewme-audio-", Pid, "-", ToString(Stamp(clock)), ".txt">>

\* Line 125, with a text that is not trimmed.
normalized_text_untrimmed(inp) == inp.text

normalized_text(inp) == Trim(inp.text)

\* Line 130, with a path that is not trimmed.
output_path_untrimmed(inp) == inp.output_path

output_path(inp) == Trim(inp.output_path)

\* input.voice_name.unwrap_or_default().trim(); None is <<>>, Some(s) is <<s>>.
requested_voice(inp) ==
    Trim(IF inp.voice_name = <<>> THEN <<>> ELSE inp.voice_name[1])

\* The environment handed to the child.
ChildEnv(inp, path) ==
    [WRITEWME_AUDIO_TEXT_PATH |-> path,
     WRITEWME_AUDIO_OUTPUT |-> output_path(inp),
     WRITEWME_AUDIO_LANGUAGE |-> Trim(inp.language),
     WRITEWME_AUDIO_VOICE |-> requested_voice(inp),
     WRITEWME_AUDIO_RATE_SAPI |-> ToString(map_audio_rate_to_sapi(inp.rate)),
     WRITEWME_AUDIO_VOLUME_SAPI |-> ToString(map_audio_volume_to_sapi(inp.volume))]

NoEnv == <<>>

\* command_result: not yet there, Err(io error) or Ok(Output).
NoCommandResult == [kind |-> "none"]

SpawnFailed(error) == [kind |-> "Err", error |-> error]

Exited(out) ==
    [kind |-> "Ok", code |-> out.code, stdout |-> out.stdout, stderr |-> out.stderr]

\* A detail that prefers stdout to stderr.
FailureDetailStdoutFirst(cr) ==
    LET stderr == Trim(Utf8Lossy(cr.stderr))
        stdout == Trim(Utf8Lossy(cr.stdout))
    IN  IF stdout # <<>> THEN stdout
        ELSE IF stderr # <<>> THEN stderr
        ELSE GenericDetail(cr.code)

\* A detail that never looks at stdout.
FailureDetailNoStdout(cr) ==
    LET stderr == Trim(Utf8Lossy(cr.stderr))
    IN  IF stderr # <<>> THEN stderr
        ELSE GenericDetail(cr.code)

\* Lines 154-162.
FailureDetail(cr) ==
    LET stderr == Trim(Utf8Lossy(cr.stderr))
        stdout == Trim(Utf8Lossy(cr.stdout))
    IN  IF stderr # <<>> THEN stderr
        ELSE IF stdout # <<>> THEN stdout
        ELSE GenericDetail(cr.code)

\* A success path that always trusts stdout.
SuccessPathStdoutOnly(cr, requested) == Trim(Utf8Lossy(cr.stdout))

\* Lines 166-171.
SuccessPath(cr, requested) ==
    LET exported_path == Trim(Utf8Lossy(cr.stdout))
    IN  IF exported_path = <<>> THEN requested ELSE exported_path

\* An outcome that is Ok whenever the child wrote a path to stdout.
ClassifyTrustingStdout(cr, requested) ==
    IF cr.kind = "Err" THEN Err(SpawnMsg(cr.error))
    ELSE IF cr.code # 0 /\ Trim(Utf8Lossy(cr.stdout)) = <<>>
    THEN Err(FailMsg(FailureDetail(cr)))
    ELSE Ok(SuccessPath(cr, requested))

\* Lines 152-171: the outcome for a command result.
Classify(cr, requested) ==
    IF cr.kind = "Err" THEN Err(SpawnMsg(cr.error))
    ELSE IF cr.code # 0 THEN Err(FailMsg(FailureDetail(cr)))
    ELSE Ok(SuccessPath(cr, requested))

\* The file system: a function from the paths that exist to their files.
NoFiles == <<>>

FsWrite(files, path, file) ==
    [p \in DOMAIN files \cup {path} |-> IF p = path THEN file ELSE files[p]]

FsRemove(files, path) == [p \in DOMAIN files \ {path} |-> files[p]]

\* The inputs and child results of the runs that are explored.
Profiles ==
    {[language |-> <<>>, voice_name |-> <<>>,
      rate |-> F32(1, 1), volume |-> F32(1, 1)],
     [language |-> <<"e", "s", "-", "M", "X", " ">>, voice_name |-> <<<<" ", "v">>>>,
      rate |-> F32(3, 1), volume |-> F32(1, 2)]}

MakeInput(t, p, f) ==
    [text |-> t, output_path |-> p, language |-> f.language,
     voice_name |-> f.voice_name, rate |-> f.rate, volume |-> f.volume]

\* The output paths a caller can hand over: any string, the name the staged
\* file gets (the process id and the clock are no secret) among them.
OutputPaths == SeqsUpTo(Chars, MaxPathLen) \cup {build_temp_audio_text_path(0)}

Inputs ==
    {MakeInput(t, p, f) : t \in SeqsUpTo(Chars, MaxTextLen),
                          p \in OutputPaths, f \in Profiles}

ExitCodes == {0, 1}

\* The results of a child whose stdout and stderr are no longer than limits.
ChildResults(limits) ==
    [code : ExitCodes, stdout : SeqsUpTo(Bytes, limits[1]),
     stderr : SeqsUpTo(Bytes, limits[2])]

ConcInputs ==
    {MakeInput(<<"a">>, <<"a">>, f) : f \in {f \in Profiles : f.language = <<>>}}

(***************************************************************************)
(* AUDIO_EXPORT_SCRIPT: values.                                            *)
(***************************************************************************)
\* String.ToLowerInvariant, on the letters of the model.
LowerChar(c) ==
    CASE c = "E" -> "e" [] c = "S" -> "s" [] c = "M" -> "m" [] c = "X" -> "x"
      [] c = "U" -> "u" [] c = "N" -> "n" [] OTHER -> c

ToLowerInvariant(s) == [k \in 1 .. Len(s) |-> LowerChar(s[k])]

\* $s.Split('-')[0]
RECURSIVE SplitFirst(_)
SplitFirst(s) ==
    IF s = <<>> \/ Head(s) = "-" THEN <<>> ELSE <<Head(s)>> \o SplitFirst(Tail(s))

StartsWith(s, prefix) ==
    Len(prefix) <= Len(s) /\ SubSeq(s, 1, Len(prefix)) = prefix

\* [string]::IsNullOrWhiteSpace
IsNullOrWhiteSpace(s) == \A k \in 1 .. Len(s) : IsWhitespace(s[k])

\* [System.IO.Path]::GetDirectoryName, on paths whose separator is "/".
RECURSIVE GetDirectoryName(_)
GetDirectoryName(path) ==
    IF path = <<>> THEN <<>>
    ELSE IF path[Len(path)] = "/" THEN SubSeq(path, 1, Len(path) - 1)
    ELSE GetDirectoryName(SubSeq(path, 1, Len(path) - 1))

\* An installed voice: its name, its culture (<<>> for none, else <<name>>)
\* and whether it is enabled.
VoiceNames == <<"Ana", "Ben", "Cruz", "Dora">>

Cultures ==
    {<<>>, <<<<"e", "s", "-", "M", "X">>>>, <<<<"e", "s", "-", "E", "S">>>>,
     <<<<"e", "s">>>>, <<<<"e", "n", "-", "U", "S">>>>}

\* GetInstalledVoices(): the k-th installed voice is named VoiceNames[k].
InstalledVoiceLists ==
    UNION {{[k \in 1 .. n |-> [name |-> <<VoiceNames[k]>>, culture |-> c[k],
                               enabled |-> e[k]]] :
              c \in [1 .. n -> Cultures], e \in [1 .. n -> BOOLEAN]} :
           n \in 0 .. MaxVoices}

\* SpeechSynthesizer.SelectVoice(name) succeeds for an installed, enabled
\* voice of that name and throws for any other name.
EngineAccepts(vs, name) ==
    \E k \in 1 .. Len(vs) : vs[k].name = name /\ vs[k].enabled

\* ... | Where-Object { test } | Select-Object -First 1: <<>> for $null.
\* hits are the places of the voices that pass the test.
SelectFirst(vs, hits) ==
    IF hits = {} THEN <<>>
    ELSE <<vs[CHOOSE k \in hits : \A h \in hits : k <= h]>>

\* Lines 58-63, without the prefix test.
VoiceQueryExactOnly(v, languageLower, languageBase) ==
    /\ v.enabled
    /\ v.culture # <<>>
    /\ ToLowerInvariant(v.culture[1]) = languageLower

\* Lines 58-63: the test of the first query.
VoiceQuery(v, languageLower, languageBase) ==
    /\ v.enabled
    /\ v.culture # <<>>
    /\ \/ ToLowerInvariant(v.culture[1]) = languageLower
       \/ StartsWith(ToLowerInvariant(v.culture[1]), languageBase \o <<"-">>)

\* Lines 69-72: the test of the second query.
VoiceBaseQuery(v, languageBase) ==
    /\ v.enabled
    /\ v.culture # <<>>
    /\ ToLowerInvariant(v.culture[1]) = languageBase

\* Lines 44-52 without the try around SelectVoice.
ExplicitSelectionUncaught(vs, name) ==
    IF IsNullOrWhiteSpace(name)
    THEN [voiceSelected |-> FALSE, voice |-> <<>>, thrown |-> FALSE]
    ELSE IF EngineAccepts(vs, name)
    THEN [voiceSelected |-> TRUE, voice |-> <<name>>, thrown |-> FALSE]
    ELSE [voiceSelected |-> FALSE, voice |-> <<>>, thrown |-> TRUE]

\* Lines 44-52 without the assignment to $voiceSelected.
ExplicitSelectionFlagNeverSet(vs, name) ==
    IF IsNullOrWhiteSpace(name)
    THEN [voiceSelected |-> FALSE, voice |-> <<>>, thrown |-> FALSE]
    ELSE IF EngineAccepts(vs, name)
    THEN [voiceSelected |-> FALSE, voice |-> <<name>>, thrown |-> FALSE]
    ELSE [voiceSelected |-> FALSE, voice |-> <<>>, thrown |-> FALSE]

\* Lines 44-52: $voiceSelected and the engine's voice after them (<<>> is
\* the engine's own default voice), and whether an error leaves the block.
ExplicitSelection(vs, name) ==
    IF IsNullOrWhiteSpace(name)
    THEN [voiceSelected |-> FALSE, voice |-> <<>>, thrown |-> FALSE]
    ELSE IF EngineAccepts(vs, name)
    THEN [voiceSelected |-> TRUE, voice |-> <<name>>, thrown |-> FALSE]
    ELSE [voiceSelected |-> FALSE, voice |-> <<>>, thrown |-> FALSE]

\* Lines 55-74: $voiceMatch and the query that gave it.
LanguageMatch(vs, lang) ==
    LET languageLower == ToLowerInvariant(lang)
        languageBase == ToLowerInvariant(SplitFirst(lang))
        first ==
            SelectFirst(vs, {k \in 1 .. Len(vs) :
                               VoiceQuery(vs[k], languageLower, languageBase)})
        second ==
            SelectFirst(vs, {k \in 1 .. Len(vs) :
                               VoiceBaseQuery(vs[k], languageBase)})
    IN  IF first # <<>>
        THEN [voiceMatch |-> first, by |-> "first query", queries |-> 1]
        ELSE IF second # <<>>
        THEN [voiceMatch |-> second, by |-> "second query", queries |-> 2]
        ELSE [voiceMatch |-> <<>>, by |-> "none", queries |-> 2]

\* Lines 76-78 without the test for $null.
SelectMatchedUnguarded(found, current) ==
    IF found # <<>> THEN [voice |-> <<found[1].name>>, thrown |-> FALSE]
    ELSE [voice |-> current, thrown |-> TRUE]

\* Lines 76-78: the engine's voice after them, current being the voice
\* before them, and whether an error leaves the block.
SelectMatched(found, current) ==
    IF found # <<>> THEN [voice |-> <<found[1].name>>, thrown |-> FALSE]
    ELSE [voice |-> current, thrown |-> FALSE]

\* The environments and engines of the script runs that are explored.
ScriptLanguages ==
    {<<>>, <<"e", "s", "-", "M", "X">>, <<"E", "S", "-", "m", "x">>, <<"e", "s">>}

ScriptVoiceNames == {<<>>} \cup {<<VoiceNames[k]>> : k \in 1 .. (MaxVoices + 1)}

ScriptOutPaths == {<<"o", ".", "w", "a", "v">>, <<"d", "/", "o", ".", "w", "a", "v">>}

ScriptTextFiles == {<<>>, <<<<"a">>>>, <<<<" ">>>>}

VARIABLES
    nrate,          \* normalizer: the rate handed to map_audio_rate_to_sapi
    nvolume,        \* normalizer: the volume handed to map_audio_volume_to_sapi
    rate_sapi,      \* normalizer: <<>> or <<the native rate>>
    volume_sapi,    \* normalizer: <<>> or <<the native volume>>
    now,            \* the system clock, in milliseconds since the epoch
    fs,             \* the files that exist, by path
    childLimits,    \* the longest stdout and stderr of a child in this run
    pc,             \* per invocation: where export_audiobook_wav stands
    input,          \* per invocation: the ExportAudiobookInput
    text_path,      \* per invocation: <<>> or the staged file's path
    clockRead,      \* per invocation: <<>> or <<the clock value read for the path>>
    env,            \* per invocation: the child's environment
    command_result, \* per invocation: what Command::output returned
    removed,        \* per invocation: "none", or how fs::remove_file ended
    result,         \* per invocation: what the command returned
    writes,         \* per invocation: calls of fs::write
    spawns,         \* per invocation: calls of Command::output
    write_result,   \* per invocation: "none", or what fs::write returned
    spc,            \* script: the statement the script stands before
    textFile,       \* script: <<>> or <<the content of the file at $textPath>>
    outPath,        \* script: $outPath
    language,       \* script: $language
    voiceName,      \* script: $voiceName
    voices,         \* script: the voices the engine has installed, in its order
    dirs,           \* script: the directories that exist
    voiceSelected,  \* script: $voiceSelected
    voiceMatch,     \* script: $voiceMatch, <<>> for $null
    matchedBy,      \* script: the step of the resolution that chose the voice
    queries,        \* script: the queries of the installed voices that ran
    synthVoice,     \* script: the engine's voice, <<>> for its default
    waveFile,       \* script: <<>> or <<the path SetOutputToWaveFile opened>>
    spoken,         \* script: <<>> or <<the voice Speak used>>
    stdout,         \* script: what the script wrote to its output
    stderr,         \* script: <<>> or the error the script ended with
    exitCode        \* script: <<>> or <<the exit status of the process>>

varsNorm == <<nrate, nvolume, rate_sapi, volume_sapi>>

varsCmd ==
    <<now, fs, childLimits, pc, input, text_path, clockRead, env,
      command_result, removed, result, writes, spawns, write_result>>

varsScript ==
    <<spc, textFile, outPath, language, voiceName, voices, dirs, voiceSelected,
      voiceMatch, matchedBy, queries, synthVoice, waveFile, spoken, stdout,
      stderr, exitCode>>

vars == <<varsNorm, varsCmd, varsScript>>

(***************************************************************************)
(* The normalizer applied to a grid of inputs.                             *)
(***************************************************************************)
InitNormVars ==
    /\ nrate \in RateGrid
    /\ nvolume \in VolumeGrid
    /\ rate_sapi = <<>>
    /\ volume_sapi = <<>>

\* The normalizer's variables in the specifications that are about other parts.
NormUnused ==
    /\ nrate = F32(1, 1)
    /\ nvolume = F32(1, 1)
    /\ rate_sapi = <<>>
    /\ volume_sapi = <<>>

MapRate ==
    /\ rate_sapi = <<>>
    /\ rate_sapi' = <<map_audio_rate_to_sapi(nrate)>>
    /\ UNCHANGED <<nrate, nvolume, volume_sapi>>
    /\ UNCHANGED <<varsCmd, varsScript>>

MapVolume ==
    /\ volume_sapi = <<>>
    /\ volume_sapi' = <<map_audio_volume_to_sapi(nvolume)>>
    /\ UNCHANGED <<nrate, nvolume, rate_sapi>>
    /\ UNCHANGED <<varsCmd, varsScript>>

(***************************************************************************)
(* export_audiobook_wav (Windows build), one step per call that reads or   *)
(* writes something other invocations or the child can see.                *)
(***************************************************************************)
InitCmdVars(callers, inputs, limits, clocks) ==
    /\ now \in clocks
    /\ fs = NoFiles
    /\ childLimits = limits
    /\ pc = [i \in Invs |-> IF i \in callers THEN "ready" ELSE "off"]
    /\ \E given \in [callers -> inputs] :
         input = [i \in Invs |-> IF i \in callers THEN given[i]
                                 ELSE CHOOSE x \in inputs : TRUE]
    /\ text_path = [i \in Invs |-> <<>>]
    /\ clockRead = [i \in Invs |-> <<>>]
    /\ env = [i \in Invs |-> NoEnv]
    /\ command_result = [i \in Invs |-> NoCommandResult]
    /\ removed = [i \in Invs |-> "none"]
    /\ result = [i \in Invs |-> NoResult]
    /\ writes = [i \in Invs |-> 0]
    /\ spawns = [i \in Invs |-> 0]
    /\ write_result = [i \in Invs |-> "none"]

\* The command's variables in the specifications that are about other parts.
CmdUnused == InitCmdVars({}, ConcInputs, <<0, 0>>, {0})

\* The system clock advances.
Tick ==
    /\ now < MaxClock
    /\ now' = now + 1
    /\ UNCHANGED <<fs, childLimits, pc, input, text_path, clockRead, env,
                   command_result, removed, result, writes, spawns,
                   write_result>>
    /\ UNCHANGED <<varsNorm, varsScript>>

\* Lines 125-135: the two validations, then the staged file's name.
Begin(i) ==
    /\ pc[i] = "ready"
    /\ IF normalized_text(input[i]) = <<>>
       THEN /\ result' = [result EXCEPT ![i] = Err(MSG_EMPTY_TEXT)]
            /\ pc' = [pc EXCEPT ![i] = "done"]
            /\ UNCHANGED <<text_path, clockRead>>
       ELSE IF output_path(input[i]) = <<>>
       THEN /\ result' = [result EXCEPT ![i] = Err(MSG_NO_OUTPUT)]
            /\ pc' = [pc EXCEPT ![i] = "done"]
            /\ UNCHANGED <<text_path, clockRead>>
       ELSE /\ text_path' = [text_path EXCEPT ![i] = build_temp_audio_text_path(now)]
            /\ clockRead' = [clockRead EXCEPT ![i] = <<now>>]
            /\ pc' = [pc EXCEPT ![i] = "stage"]
            /\ UNCHANGED result
    /\ UNCHANGED <<now, fs, childLimits, input, env, command_result, removed,
                   writes, spawns, write_result>>
    /\ UNCHANGED <<varsNorm, varsScript>>

\* A staging that tries the write a second time after it failed.
StageRetrying(i) ==
    /\ pc[i] = "stage"
    /\ writes' = [writes EXCEPT ![i] = @ + 1]
    /\ \E outcome \in {"written", "not created", "created, not written"} :
         /\ fs' = CASE outcome = "written" ->
                         FsWrite(fs, text_path[i],
                                 [data |-> normalized_text(input[i]), by |-> i])
                    [] outcome = "not created" -> fs
                    [] outcome = "created, not written" ->
                         FsWrite(fs, text_path[i], [data |-> <<>>, by |-> i])
         /\ IF outcome = "written"
            THEN /\ write_result' = [write_result EXCEPT ![i] = "Ok"]
                 /\ pc' = [pc EXCEPT ![i] = "spawn"]
                 /\ UNCHANGED result
            ELSE IF writes[i] = 0
            THEN /\ write_result' = [write_result EXCEPT ![i] = "Err"]
                 /\ UNCHANGED <<pc, result>>
            ELSE /\ write_result' = [write_result EXCEPT ![i] = "Err"]
                 /\ pc' = [pc EXCEPT ![i] = "done"]
                 /\ result' = [result EXCEPT ![i] = Err(StagingMsg("os error"))]
    /\ UNCHANGED <<now, childLimits, input, text_path, clockRead, env,
                   command_result, removed, spawns>>
    /\ UNCHANGED <<varsNorm, varsScript>>

\* Lines 136-137: fs::write creates or truncates the file and writes the text.
\* It can fail before the file exists, or after it was created or truncated.
Stage(i) ==
    /\ pc[i] = "stage"
    /\ writes' = [writes EXCEPT ![i] = @ + 1]
    /\ \E outcome \in {"written", "not created", "created, not written"} :
         /\ fs' = CASE outcome = "written" ->
                         FsWrite(fs, text_path[i],
                                 [data |-> normalized_text(input[i]), by |-> i])
                    [] outcome = "not created" -> fs
                    [] outcome = "created, not written" ->
                         FsWrite(fs, text_path[i], [data |-> <<>>, by |-> i])
         /\ IF outcome = "written"
            THEN /\ write_result' = [write_result EXCEPT ![i] = "Ok"]
                 /\ pc' = [pc EXCEPT ![i] = "spawn"]
                 /\ UNCHANGED result
            ELSE /\ write_result' = [write_result EXCEPT ![i] = "Err"]
                 /\ pc' = [pc EXCEPT ![i] = "done"]
                 /\ result' = [result EXCEPT ![i] = Err(StagingMsg("os error"))]
    /\ UNCHANGED <<now, childLimits, input, text_path, clockRead, env,
                   command_result, removed, spawns>>
    /\ UNCHANGED <<varsNorm, varsScript>>

\* Lines 139-148: the command is built and spawned; spawning can fail.
Spawn(i) ==
    /\ pc[i] = "spawn"
    /\ env' = [env EXCEPT ![i] = ChildEnv(input[i], text_path[i])]
    /\ spawns' = [spawns EXCEPT ![i] = @ + 1]
    /\ \/ /\ command_result' = [command_result EXCEPT ![i] = SpawnFailed("os error")]
          /\ pc' = [pc EXCEPT ![i] = "finish"]
       \/ /\ pc' = [pc EXCEPT ![i] = "wait"]
          /\ UNCHANGED command_result
    /\ UNCHANGED <<now, fs, childLimits, input, text_path, clockRead, removed,
                   result, writes, write_result>>
    /\ UNCHANGED <<varsNorm, varsScript>>

\* Line 148: output() returns when the child has exited.
ChildExit(i) ==
    /\ pc[i] = "wait"
    /\ \E out \in ChildResults(childLimits) :
         command_result' = [command_result EXCEPT ![i] = Exited(out)]
    /\ pc' = [pc EXCEPT ![i] = "finish"]
    /\ UNCHANGED <<now, fs, childLimits, input, text_path, clockRead, env,
                   removed, result, writes, spawns, write_result>>
    /\ UNCHANGED <<varsNorm, varsScript>>

\* Lines 150-171 with a removal whose failure is returned.
FinishReportingRemoval(i) ==
    /\ pc[i] = "finish"
    /\ \/ /\ text_path[i] \in DOMAIN fs
          /\ fs' = FsRemove(fs, text_path[i])
          /\ removed' = [removed EXCEPT ![i] = "ok"]
          /\ result' = [result EXCEPT ![i] =
                          Classify(command_result[i], output_path(input[i]))]
       \/ /\ removed' = [removed EXCEPT ![i] = "err"]
          /\ UNCHANGED fs
          /\ result' = [result EXCEPT ![i] = Err(StagingMsg("os error"))]
    /\ pc' = [pc EXCEPT ![i] = "done"]
    /\ UNCHANGED <<now, childLimits, input, text_path, clockRead, env,
                   command_result, writes, spawns, write_result>>
    /\ UNCHANGED <<varsNorm, varsScript>>

\* Lines 150-171: the staged file is removed, the result of the removal is
\* dropped, and the command result is classified.
Finish(i) ==
    /\ pc[i] = "finish"
    /\ \/ /\ text_path[i] \in DOMAIN fs
          /\ fs' = FsRemove(fs, text_path[i])
          /\ removed' = [removed EXCEPT ![i] = "ok"]
       \/ /\ removed' = [removed EXCEPT ![i] = "err"]
          /\ UNCHANGED fs
    /\ result' = [result EXCEPT ![i] = Classify(command_result[i], output_path(input[i]))]
    /\ pc' = [pc EXCEPT ![i] = "done"]
    /\ UNCHANGED <<now, childLimits, input, text_path, clockRead, env,
                   command_result, writes, spawns, write_result>>
    /\ UNCHANGED <<varsNorm, varsScript>>

(***************************************************************************)
(* export_audiobook_wav (build for a system other than Windows).           *)
(***************************************************************************)
\* An unsupported build that validates the text before it answers.
ExportUnsupportedValidating(i) ==
    /\ pc[i] = "ready"
    /\ result' = [result EXCEPT ![i] = IF normalized_text(input[i]) = <<>>
                                        THEN Err(MSG_EMPTY_TEXT)
                                        ELSE Err(MSG_UNSUPPORTED)]
    /\ pc' = [pc EXCEPT ![i] = "done"]
    /\ UNCHANGED <<now, fs, childLimits, input, text_path, clockRead, env,
                   command_result, removed, writes, spawns, write_result>>
    /\ UNCHANGED <<varsNorm, varsScript>>

\* Lines 174-178: the input is ignored and the fixed error is returned.
ExportUnsupported(i) ==
    /\ pc[i] = "ready"
    /\ result' = [result EXCEPT ![i] = Err(MSG_UNSUPPORTED)]
    /\ pc' = [pc EXCEPT ![i] = "done"]
    /\ UNCHANGED <<now, fs, childLimits, input, text_path, clockRead, env,
                   command_result, removed, writes, spawns, write_result>>
    /\ UNCHANGED <<varsNorm, varsScript>>

(***************************************************************************)
(* AUDIO_EXPORT_SCRIPT, run by the child process: one step per statement   *)
(* that can fail or that the resolution of the voice turns on.  With       *)
(* $ErrorActionPreference = 'Stop' an error that is not caught ends the     *)
(* script: the error goes to stderr and the exit status is 1.              *)
(***************************************************************************)
InitScriptVars(lists) ==
    /\ spc = "read"
    /\ textFile \in ScriptTextFiles
    /\ outPath \in ScriptOutPaths
    /\ language \in ScriptLanguages
    /\ voiceName \in ScriptVoiceNames
    /\ voices \in lists
    /\ dirs \in {{}, {GetDirectoryName(outPath)} \ {<<>>}}
    /\ voiceSelected = FALSE
    /\ voiceMatch = <<>>
    /\ matchedBy = "none"
    /\ queries = 0
    /\ synthVoice = <<>>
    /\ waveFile = <<>>
    /\ spoken = <<>>
    /\ stdout = <<>>
    /\ stderr = <<>>
    /\ exitCode = <<>>

\* The script's variables in the specifications that are about other parts.
ScriptUnused ==
    /\ InitScriptVars({<<>>})
    /\ textFile = <<>>
    /\ outPath = <<"o", ".", "w", "a", "v">>
    /\ language = <<>>
    /\ voiceName = <<>>

\* An error that nothing catches.
Throw(error) ==
    /\ stderr' = error
    /\ exitCode' = <<1>>
    /\ spc' = "exited"

\* Lines 25-35: the text is read from the staged file.
ReadText ==
    /\ spc = "read"
    /\ IF textFile = <<>>
       THEN Throw(<<"Get-Content: cannot find path">>)
       ELSE IF IsNullOrWhiteSpace(textFile[1])
       THEN Throw(<<"No hay texto para exportar.">>)
       ELSE /\ spc' = "mkdir"
            /\ UNCHANGED <<stderr, exitCode>>
    /\ UNCHANGED <<textFile, outPath, language, voiceName, voices, dirs,
                   voiceSelected, voiceMatch, matchedBy, queries, synthVoice,
                   waveFile, spoken, stdout>>
    /\ UNCHANGED <<varsNorm, varsCmd>>

\* Lines 37-40 without the call of CreateDirectory.
MakeDirectorySkipped ==
    /\ spc = "mkdir"
    /\ spc' = "select"
    /\ UNCHANGED <<dirs, stderr, exitCode>>
    /\ UNCHANGED <<textFile, outPath, language, voiceName, voices,
                   voiceSelected, voiceMatch, matchedBy, queries, synthVoice,
                   waveFile, spoken, stdout>>
    /\ UNCHANGED <<varsNorm, varsCmd>>

\* Lines 37-40: the directory of the output path is created; that can fail.
MakeDirectory ==
    /\ spc = "mkdir"
    /\ LET directory == GetDirectoryName(outPath)
       IN  IF IsNullOrWhiteSpace(directory)
           THEN /\ spc' = "select"
                /\ UNCHANGED <<dirs, stderr, exitCode>>
           ELSE \/ /\ dirs' = dirs \cup {directory}
                   /\ spc' = "select"
                   /\ UNCHANGED <<stderr, exitCode>>
                \/ /\ directory \notin dirs
                   /\ Throw(<<"CreateDirectory: access denied">>)
                   /\ UNCHANGED dirs
    /\ UNCHANGED <<textFile, outPath, language, voiceName, voices,
                   voiceSelected, voiceMatch, matchedBy, queries, synthVoice,
                   waveFile, spoken, stdout>>
    /\ UNCHANGED <<varsNorm, varsCmd>>

\* Lines 42-52: the synthesizer is made and the named voice is tried.
SelectExplicit ==
    /\ spc = "select"
    /\ LET chosen == ExplicitSelection(voices, voiceName)
       IN  IF chosen.thrown
           THEN /\ Throw(<<"SelectVoice: cannot set voice">>)
                /\ UNCHANGED <<voiceSelected, synthVoice, matchedBy>>
           ELSE /\ voiceSelected' = chosen.voiceSelected
                /\ synthVoice' = chosen.voice
                /\ matchedBy' = IF chosen.voiceSelected THEN "name" ELSE "none"
                /\ spc' = "match"
                /\ UNCHANGED <<stderr, exitCode>>
    /\ UNCHANGED <<textFile, outPath, language, voiceName, voices, dirs,
                   voiceMatch, queries, waveFile, spoken, stdout>>
    /\ UNCHANGED <<varsNorm, varsCmd>>

\* Lines 54-79: without a selected voice and with a language, the installed
\* voices are searched and a voice that is found is selected.
MatchLanguage ==
    /\ spc = "match"
    /\ IF ~voiceSelected /\ ~IsNullOrWhiteSpace(language)
       THEN LET found == LanguageMatch(voices, language)
                chosen == SelectMatched(found.voiceMatch, synthVoice)
            IN  /\ voiceMatch' = found.voiceMatch
                /\ matchedBy' = found.by
                /\ queries' = found.queries
                /\ IF chosen.thrown
                   THEN /\ Throw(<<"SelectVoice: cannot set voice">>)
                        /\ UNCHANGED synthVoice
                   ELSE /\ synthVoice' = chosen.voice
                        /\ spc' = "output"
                        /\ UNCHANGED <<stderr, exitCode>>
       ELSE /\ spc' = "output"
            /\ UNCHANGED <<voiceMatch, matchedBy, queries, synthVoice, stderr,
                           exitCode>>
    /\ UNCHANGED <<textFile, outPath, language, voiceName, voices, dirs,
                   voiceSelected, waveFile, spoken, stdout>>
    /\ UNCHANGED <<varsNorm, varsCmd>>

\* Lines 81-83: rate and volume are set and the wave file is opened, which
\* fails without its directory and can fail with it.
SetOutput ==
    /\ spc = "output"
    /\ \/ /\ GetDirectoryName(outPath) \in dirs \cup {<<>>}
          /\ waveFile' = <<outPath>>
          /\ spc' = "speak"
          /\ UNCHANGED <<stderr, exitCode>>
       \/ /\ Throw(<<"SetOutputToWaveFile: cannot open">>)
          /\ UNCHANGED waveFile
    /\ UNCHANGED <<textFile, outPath, language, voiceName, voices, dirs,
                   voiceSelected, voiceMatch, matchedBy, queries, synthVoice,
                   spoken, stdout>>
    /\ UNCHANGED <<varsNorm, varsCmd>>

\* Lines 84-88: the text is spoken with the engine's voice; the output is
\* set to null afterwards, also when Speak throws.
Speak ==
    /\ spc = "speak"
    /\ \/ /\ spoken' = <<synthVoice>>
          /\ spc' = "write"
          /\ UNCHANGED <<stderr, exitCode>>
       \/ /\ Throw(<<"Speak: failed">>)
          /\ UNCHANGED spoken
    /\ waveFile' = <<>>
    /\ UNCHANGED <<textFile, outPath, language, voiceName, voices, dirs,
                   voiceSelected, voiceMatch, matchedBy, queries, synthVoice,
                   stdout>>
    /\ UNCHANGED <<varsNorm, varsCmd>>

\* Lines 90-93: the output path is written to stdout and the script ends.
WriteOutput ==
    /\ spc = "write"
    /\ stdout' = outPath \o <<"\r", "\n">>
    /\ exitCode' = <<0>>
    /\ spc' = "exited"
    /\ UNCHANGED <<textFile, outPath, language, voiceName, voices, dirs,
                   voiceSelected, voiceMatch, matchedBy, queries, synthVoice,
                   waveFile, spoken, stderr>>
    /\ UNCHANGED <<varsNorm, varsCmd>>

(***************************************************************************)
(* Specifications.                                                         *)
(***************************************************************************)
InitNorm == InitNormVars /\ CmdUnused /\ ScriptUnused

NextNorm == MapRate \/ MapVolume

SpecNorm == InitNorm /\ [][NextNorm]_vars

\* One invocation, every input and child result within the bounds.
Init == NormUnused /\ ScriptUnused /\ InitCmdVars({1}, Inputs, <<MaxStdoutLen, MaxStderrLen>>, {0})

Next == \E i \in Invs : Begin(i) \/ Stage(i) \/ Spawn(i) \/ ChildExit(i) \/ Finish(i)

Spec == Init /\ [][Next]_vars

\* Every invocation of one application process at once, the clock running.
InitConc == NormUnused /\ ScriptUnused /\ InitCmdVars(Invs, ConcInputs, <<0, 0>>, {-1, 0})

NextConc ==
    \/ Tick
    \/ \E i \in Invs : Begin(i) \/ Stage(i) \/ Spawn(i) \/ ChildExit(i) \/ Finish(i)

SpecConc == InitConc /\ [][NextConc]_vars

\* The build for a system other than Windows: one invocation, every input.
InitOther == NormUnused /\ ScriptUnused /\ InitCmdVars({1}, Inputs, <<0, 0>>, {-1, 0})

NextOther == \E i \in Invs : ExportUnsupported(i)

SpecOther == InitOther /\ [][NextOther]_vars

\* One run of the script, every environment and engine within the bounds.
InitScript == NormUnused /\ CmdUnused /\ InitScriptVars(InstalledVoiceLists)

NextScript ==
    \/ ReadText
    \/ MakeDirectory
    \/ SelectExplicit
    \/ MatchLanguage
    \/ SetOutput
    \/ Speak
    \/ WriteOutput

SpecScript == InitScript /\ [][NextScript]_vars

(***************************************************************************)
(* What the claims speak of.                                               *)
(***************************************************************************)
AllWhitespace(s) == \A k \in 1 .. Len(s) : IsWhitespace(s[k])

\* t is s without its leading and trailing whitespace.
IsTrimOf(t, s) ==
    \E a \in 0 .. Len(s) : \E b \in 0 .. (Len(s) - a) :
        /\ t = SubSeq(s, a + 1, Len(s) - b)
        /\ \A k \in 1 .. a : IsWhitespace(s[k])
        /\ \A k \in (Len(s) - b + 1) .. Len(s) : IsWhitespace(s[k])
        /\ t # <<>> => ~IsWhitespace(t[1]) /\ ~IsWhitespace(t[Len(t)])

\* part occurs in whole, element for element.
Contains(whole, part) ==
    \E k \in 0 .. (Len(whole) - Len(part)) :
        SubSeq(whole, k + 1, k + Len(part)) = part

Returned(i) == pc[i] = "done"

\* The invocation has its staged path and has not returned.
InFlight(i) == pc[i] \in {"stage", "spawn", "wait", "finish"}

NoFileOf(i) == \A p \in DOMAIN fs : fs[p].by # i

ExitedWith(i) == command_result[i].kind = "Ok"

(***************************************************************************)
(* Claims about export_audiobook_wav, one invocation (Spec).               *)
(***************************************************************************)
\* C1 (as claimed): when an invocation has returned, the staged text file
\* it named no longer exists, whichever way it returned.
C1_StagedFileGoneAtReturn ==
    \A i \in Invs :
        Returned(i) /\ text_path[i] # <<>> => text_path[i] \notin DOMAIN fs

\* C3: an input whose text is empty or all whitespace returns the empty-text
\* failure; fs::write was not called, no file of the invocation exists and
\* Command::output was not called, whatever the other fields are.
C3_EmptyTextRejectedBeforeStaging ==
    \A i \in Invs :
        Returned(i) /\ AllWhitespace(input[i].text)
        => /\ result[i] = Err(MSG_EMPTY_TEXT)
           /\ writes[i] = 0
           /\ text_path[i] = <<>>
           /\ NoFileOf(i)
           /\ spawns[i] = 0
           /\ env[i] = NoEnv

C3_Witness ==
    \E i \in Invs :
        /\ Returned(i)
        /\ input[i].text = <<" ">>
        /\ input[i].output_path = <<"a">>
        /\ input[i].voice_name # <<>>
        /\ result[i] = Err(MSG_EMPTY_TEXT)

\* C4 (as claimed): an input whose output path is empty or all whitespace
\* returns the output-path failure, a message other than the empty-text one,
\* with no write and no spawn.
C4_EmptyPathDedicatedMessage ==
    \A i \in Invs :
        Returned(i) /\ AllWhitespace(input[i].output_path)
        => /\ result[i].kind = "Err"
           /\ result[i].val # MSG_EMPTY_TEXT
           /\ writes[i] = 0
           /\ spawns[i] = 0

\* C4 (amended): an input whose output path is empty or all whitespace
\* returns a validation failure with no write and no spawn: the output-path
\* message when the text is not blank, the empty-text message when it is.
\* The output-path message differs from the empty-text message and from the
\* message of every invocation that got as far as writing or spawning.
C4_EmptyPathRejectedBeforeIO ==
    /\ MSG_NO_OUTPUT # MSG_EMPTY_TEXT
    /\ \A i \in Invs :
        Returned(i) /\ AllWhitespace(input[i].output_path)
        => /\ result[i] = IF AllWhitespace(input[i].text)
                          THEN Err(MSG_EMPTY_TEXT)
                          ELSE Err(MSG_NO_OUTPUT)
           /\ writes[i] = 0
           /\ text_path[i] = <<>>
           /\ NoFileOf(i)
           /\ spawns[i] = 0
    /\ \A i \in Invs :
        Returned(i) /\ (writes[i] > 0 \/ spawns[i] > 0)
        => result[i].val # MSG_NO_OUTPUT

C4_Witness ==
    \E i \in Invs :
        /\ Returned(i)
        /\ input[i].text = <<"a">>
        /\ input[i].output_path = <<" ">>
        /\ result[i] = Err(MSG_NO_OUTPUT)

\* C5 (as claimed): after exit status zero with empty stdout the command
\* returns exactly the output path of the input.
C5_SuccessPathIsRequestedExactly ==
    \A i \in Invs :
        /\ Returned(i) /\ ExitedWith(i)
        /\ command_result[i].code = 0 /\ command_result[i].stdout = <<>>
        => result[i] = Ok(input[i].output_path)

\* C5 (amended): after exit status zero with empty stdout the command
\* returns the output path of the input without its leading and trailing
\* whitespace.
C5_SuccessPathIsRequestedTrimmed ==
    \A i \in Invs :
        /\ Returned(i) /\ ExitedWith(i)
        /\ command_result[i].code = 0 /\ command_result[i].stdout = <<>>
        => /\ result[i].kind = "Ok"
           /\ IsTrimOf(result[i].val, input[i].output_path)

C5_Witness ==
    \E i \in Invs :
        /\ Returned(i) /\ ExitedWith(i)
        /\ command_result[i].code = 0 /\ command_result[i].stdout = <<>>
        /\ input[i].output_path = <<" ", "a">>
        /\ result[i] = Ok(<<"a">>)

\* C6 (as claimed): after a non-zero exit status with non-empty stderr the
\* failure message contains the captured stderr as it was captured.
C6_FailureHoldsStderrVerbatim ==
    \A i \in Invs :
        /\ Returned(i) /\ ExitedWith(i)
        /\ command_result[i].code # 0 /\ command_result[i].stderr # <<>>
        => /\ result[i].kind = "Err"
           /\ Contains(result[i].val, command_result[i].stderr)

\* C6 (amended): after a non-zero exit status with a stderr that holds more
\* than whitespace, the failure message is "Fallo al generar WAV: " followed
\* by the stderr decoded as UTF-8 (U+FFFD for an invalid byte) without its
\* leading and trailing whitespace.
C6_FailureHoldsStderrTrimmed ==
    \A i \in Invs :
        /\ Returned(i) /\ ExitedWith(i)
        /\ command_result[i].code # 0
        /\ ~AllWhitespace(command_result[i].stderr)
        => LET captured == command_result[i].stderr
               decoded == [k \in 1 .. Len(captured) |->
                             IF captured[k] \in {"a", "\n"} THEN captured[k]
                             ELSE "uFFFD"]
           IN  /\ result[i].kind = "Err"
               /\ \E a \in 1 .. Len(decoded) : \E b \in a .. Len(decoded) :
                    /\ IsTrimOf(SubSeq(decoded, a, b), decoded)
                    /\ result[i].val =
                         <<"Fallo al generar WAV:", " ">> \o SubSeq(decoded, a, b)

C6_Witness ==
    \E i \in Invs :
        /\ Returned(i) /\ ExitedWith(i)
        /\ command_result[i].code = 1
        /\ command_result[i].stderr = <<"a", "\n">>
        /\ command_result[i].stdout = <<"a">>
        /\ result[i] = Err(<<"Fallo al generar WAV:", " ", "a">>)

(***************************************************************************)
(* Claims about concurrent invocations (SpecConc).                         *)
(***************************************************************************)
\* C2 (as claimed): no two invocations in flight hold the same staged path,
\* and from its write until its child has finished an invocation's staged
\* file exists and holds its own text.
C2_StagedPathsNeverShared ==
    /\ \A i, j \in Invs :
        i # j /\ InFlight(i) /\ InFlight(j) => text_path[i] # text_path[j]
    /\ \A i \in Invs :
        pc[i] \in {"spawn", "wait"}
        => /\ text_path[i] \in DOMAIN fs
           /\ fs[text_path[i]] = [data |-> normalized_text(input[i]), by |-> i]

\* C2 (amended): two invocations of one process hold the same staged path
\* exactly when they read the same millisecond of the clock (every reading
\* before the epoch counting as 0); an invocation whose millisecond no other
\* invocation read keeps its staged file, with its own text, from its write
\* until its child has finished.
C2_StagedPathsSharedOnlyOnSameMillisecond ==
    /\ \A i, j \in Invs :
        i # j /\ text_path[i] # <<>> /\ text_path[j] # <<>>
        => (text_path[i] = text_path[j]
            <=> (IF clockRead[i][1] < 0 THEN 0 ELSE clockRead[i][1])
                = (IF clockRead[j][1] < 0 THEN 0 ELSE clockRead[j][1]))
    /\ \A i \in Invs :
        /\ pc[i] \in {"spawn", "wait"}
        /\ \A j \in Invs \ {i} :
             clockRead[j] # <<>>
             => (IF clockRead[i][1] < 0 THEN 0 ELSE clockRead[i][1])
                # (IF clockRead[j][1] < 0 THEN 0 ELSE clockRead[j][1])
        => /\ text_path[i] \in DOMAIN fs
           /\ fs[text_path[i]] = [data |-> input[i].text, by |-> i]

C2_Witness ==
    \E i, j \in Invs :
        /\ i # j
        /\ pc[i] = "wait" /\ pc[j] = "wait"
        /\ text_path[i] # text_path[j]
        /\ fs[text_path[i]].by = i
        /\ fs[text_path[j]].by = j

(***************************************************************************)
(* Claims about the normalizer (SpecNorm).                                 *)
(***************************************************************************)
\* n is x rounded to the nearest integer, a tie going away from zero.
IsRoundOf(n, x) ==
    IF x[1] >= 0
    THEN 2 * n * x[2] <= 2 * x[1] + x[2] /\ 2 * x[1] + x[2] < 2 * (n + 1) * x[2]
    ELSE 2 * (n - 1) * x[2] < 2 * x[1] - x[2] /\ 2 * x[1] - x[2] <= 2 * n * x[2]

\* C9: with c the rate clamped to [0.5, 2.0], the native rate is
\* round(((c - 0.5) / 0.5) * 10 - 10), that is round(20c - 20), when c <= 1
\* and round((c - 1) * 10) when c > 1; 0.5 gives -10, 1.0 gives 0, 2.0 gives
\* 10, a rate below 0.5 gives what 0.5 gives, a rate above 2.0 (3.0 is one)
\* gives what 2.0 gives, and the native rate lies in -10 .. 10.
C9_RateMapping ==
    rate_sapi # <<>> =>
        LET k == nrate[1]
            d == nrate[2]
            r == rate_sapi[1]
            \* c = ck / (2d)
            ck == IF 2 * k < d THEN d ELSE IF k > 2 * d THEN 4 * d ELSE 2 * k
        IN  /\ ck <= 2 * d => IsRoundOf(r, <<20 * ck - 40 * d, 2 * d>>)
            /\ ck > 2 * d => IsRoundOf(r, <<10 * ck - 20 * d, 2 * d>>)
            /\ 2 * k = d => r = -10
            /\ k = d => r = 0
            /\ k = 2 * d => r = 10
            /\ 2 * k < d => r = -10
            /\ k > 2 * d => r = 10
            /\ r \in -10 .. 10

C9_Witness ==
    /\ nrate = F32(3 * GridDen, GridDen)
    /\ rate_sapi = <<10>>

\* C10: the native volume is round(clamp(v, 0, 1) * 100); 0 gives 0, 1 gives
\* 100, 1.5 gives 100, a negative volume gives 0, and the native volume lies
\* in 0 .. 100.
C10_VolumeMapping ==
    volume_sapi # <<>> =>
        LET k == nvolume[1]
            d == nvolume[2]
            v == volume_sapi[1]
            ck == IF k < 0 THEN 0 ELSE IF k > d THEN d ELSE k
        IN  /\ IsRoundOf(v, <<100 * ck, d>>)
            /\ k = 0 => v = 0
            /\ k = d => v = 100
            /\ 2 * k = 3 * d => v = 100
            /\ k < 0 => v = 0
            /\ v \in 0 .. 100

C10_Witness ==
    /\ nvolume = F32(GridDen + GridDen \div 2, GridDen)
    /\ volume_sapi = <<100>>

(***************************************************************************)
(* Claims about the resolution of the voice (SpecScript).                  *)
(***************************************************************************)
\* The resolution of the voice is over and the script has not failed since.
Resolved ==
    \/ spc \in {"output", "speak", "write"}
    \/ spc = "exited" /\ exitCode = <<0>>

BeginsWith(s, p) == Len(p) <= Len(s) /\ \A k \in 1 .. Len(p) : s[k] = p[k]

LowerCulture(v) == [k \in 1 .. Len(v.culture[1]) |-> LowerChar(v.culture[1][k])]

\* No voice is named, the language is "es-MX", no voice of culture es-MX is
\* installed and an enabled voice of culture es-ES is.
SpanishOfSpainOnly ==
    /\ voiceName = <<>>
    /\ language = <<"e", "s", "-", "M", "X">>
    /\ \A k \in 1 .. Len(voices) :
         voices[k].culture # <<<<"e", "s", "-", "M", "X">>>>
    /\ \E k \in 1 .. Len(voices) :
         voices[k].enabled /\ voices[k].culture = <<<<"e", "s", "-", "E", "S">>>>

\* C7 (as claimed): in that case the es-ES voice is chosen by the second
\* query (culture equal to the bare base subtag), not by the first.
C7_SpainVoiceChosenByBaseQuery ==
    Resolved /\ SpanishOfSpainOnly
    => /\ matchedBy = "second query"
       /\ \E k \in 1 .. Len(voices) :
            /\ synthVoice = <<voices[k].name>>
            /\ voices[k].culture = <<<<"e", "s", "-", "E", "S">>>>

\* C7 (amended): in that case the voice chosen is the first enabled
\* installed voice whose culture begins with "es-", an es-ES voice when no
\* other es-* voice comes before it, and it is chosen by the first query,
\* through its prefix test; the second query finds nothing to do.
C7_SpainVoiceChosenByPrefixQuery ==
    Resolved /\ SpanishOfSpainOnly
    => /\ matchedBy = "first query"
       /\ \E k \in 1 .. Len(voices) :
            /\ voiceMatch = <<voices[k]>>
            /\ synthVoice = <<voices[k].name>>
            /\ voices[k].enabled
            /\ voices[k].culture = <<<<"e", "s", "-", "E", "S">>>>
            /\ BeginsWith(LowerCulture(voices[k]), <<"e", "s", "-">>)
            /\ \A h \in 1 .. (k - 1) :
                 ~(/\ voices[h].enabled
                   /\ voices[h].culture # <<>>
                   /\ BeginsWith(LowerCulture(voices[h]), <<"e", "s", "-">>))

C7_Witness ==
    /\ spc = "exited" /\ exitCode = <<0>>
    /\ SpanishOfSpainOnly
    /\ Len(voices) = 2
    /\ voices[1].culture = <<<<"e", "s">>>> /\ ~voices[1].enabled
    /\ synthVoice = <<voices[2].name>>
    /\ spoken = <<synthVoice>>

\* The voice the language alone leads to: the first enabled voice whose
\* culture is the tag or begins with its base and a hyphen; without one, the
\* first enabled voice whose culture is the base; without one, the default.
LanguageCandidates(primary) ==
    LET tag == [k \in 1 .. Len(language) |-> LowerChar(language[k])]
        cut == CHOOSE n \in 0 .. Len(tag) :
                 /\ \A k \in 1 .. n : tag[k] # "-"
                 /\ n < Len(tag) => tag[n + 1] = "-"
        base == SubSeq(tag, 1, cut)
    IN  {k \in 1 .. Len(voices) :
           /\ voices[k].enabled
           /\ voices[k].culture # <<>>
           /\ IF primary
              THEN \/ LowerCulture(voices[k]) = tag
                   \/ BeginsWith(LowerCulture(voices[k]), base \o <<"-">>)
              ELSE LowerCulture(voices[k]) = base}

VoiceByLanguageAlone ==
    LET Least(S) == CHOOSE k \in S : \A h \in S : k <= h
    IN  IF \A k \in 1 .. Len(language) : IsWhitespace(language[k]) THEN <<>>
        ELSE IF LanguageCandidates(TRUE) # {}
        THEN <<voices[Least(LanguageCandidates(TRUE))].name>>
        ELSE IF LanguageCandidates(FALSE) # {}
        THEN <<voices[Least(LanguageCandidates(FALSE))].name>>
        ELSE <<>>

\* The engine rejects the voice name: no enabled voice of that name.
VoiceNameRejected ==
    /\ voiceName # <<>>
    /\ \A k \in 1 .. Len(voices) : voices[k].name = voiceName => ~voices[k].enabled

\* C8: a voice name the engine rejects does not end the script, leaves
\* $voiceSelected false, and the voice is then the one the language alone
\* leads to, which is also the voice of a run without a voice name.
C8_RejectedVoiceFallsThrough ==
    /\ VoiceNameRejected
       => /\ stderr # <<"SelectVoice: cannot set voice">>
          /\ spc \notin {"read", "mkdir", "select"} /\ exitCode # <<1>>
             => ~voiceSelected /\ matchedBy # "name"
          /\ Resolved => synthVoice = VoiceByLanguageAlone
    /\ voiceName = <<>> /\ Resolved => synthVoice = VoiceByLanguageAlone

C8_Witness ==
    /\ spc = "exited" /\ exitCode = <<0>>
    /\ Len(voices) = 2
    /\ voiceName = voices[1].name
    /\ ~voices[1].enabled
    /\ voices[1].culture = <<<<"e", "s", "-", "M", "X">>>>
    /\ language = <<"e", "s", "-", "M", "X">>
    /\ voices[2].enabled
    /\ voices[2].culture = <<<<"e", "s", "-", "E", "S">>>>
    /\ synthVoice = <<voices[2].name>>
    /\ spoken = <<synthVoice>>

(***************************************************************************)
(* Claims about one invocation, continued: checked under Spec.             *)
(***************************************************************************)
\* The parent has written to, or removed, the file at the output path.
ParentTouchedOutput(i) ==
    /\ text_path[i] = output_path(input[i])
    /\ writes[i] > 0

\* C11: in every invocation, for every output path that passes the
\* validation, the staged file's path and the output path are different
\* locations, so the parent never writes or removes the file at the output
\* path.
C11_StagedPathIsNeverOutputPath ==
    \A i \in Invs :
      text_path[i] # <<>>
      => /\ text_path[i] # output_path(input[i])
         /\ ~ParentTouchedOutput(i)

\* The invocation has met a failure: of the write, of the spawn, or a child
\* that ended with a status other than zero.
Failed(i) ==
    \/ write_result[i] = "Err"
    \/ command_result[i].kind = "Err"
    \/ command_result[i].kind = "Ok" /\ command_result[i].code # 0

\* What one step leaves of invocation i when it does nothing for it.
Untouched(i) ==
    /\ pc'[i] = pc[i]
    /\ result'[i] = result[i]
    /\ writes'[i] = writes[i]
    /\ spawns'[i] = spawns[i]
    /\ write_result'[i] = write_result[i]
    /\ command_result'[i] = command_result[i]
    /\ removed'[i] = removed[i]

\* C12: every invocation has one outcome and tries nothing twice: the staged
\* file is written at most once and the child is spawned at most once, the
\* outcome is set once (Ok or Err) and nothing of the invocation moves after
\* it, and after a failure there is no further write and no further spawn,
\* and the only step left is the one that hands the failure out.
C12_OneOutcomeNoRetry ==
    [][\A i \in Invs :
         /\ writes'[i] <= 1 /\ spawns'[i] <= 1
         /\ result[i] # NoResult => Untouched(i)
         /\ result'[i] # result[i]
            => /\ result'[i].kind \in {"Ok", "Err"}
               /\ pc'[i] = "done"
         /\ pc'[i] = "done" => result'[i] # NoResult
         /\ Failed(i)
            => /\ writes'[i] = writes[i]
               /\ spawns'[i] = spawns[i]
               /\ command_result'[i] = command_result[i]
               /\ result'[i] # result[i] => result'[i].kind = "Err"]_vars

C12_Witness ==
    \E i \in Invs :
      /\ Returned(i)
      /\ writes[i] = 1 /\ spawns[i] = 1
      /\ command_result[i].kind = "Err"
      /\ result[i] = Err(<<"No se pudo iniciar la exportacion de audio:", " ", "os error">>)

(***************************************************************************)
(* Claims about the build for a system other than Windows: checked under   *)
(* SpecOther.                                                              *)
(***************************************************************************)
\* C13: on a build without the speech capability every invocation returns
\* the one fixed failure, whatever the input (an empty text or an empty
\* output path included), and no file is written and no process is spawned.
C13_UnsupportedBuildFixedFailure ==
    \A i \in Invs :
      /\ writes[i] = 0 /\ spawns[i] = 0
      /\ text_path[i] = <<>> /\ env[i] = <<>> /\ command_result[i].kind = "none"
      /\ fs = <<>>
      /\ Returned(i)
         => result[i] =
              [kind |-> "Err",
               val |-> <<"La exportacion de audiolibro WAV con voces del sistema esta disponible solo en Windows por ahora.">>]
      /\ ~Returned(i) => result[i].kind = "none"

C13_Witness ==
    \E i \in Invs :
      /\ Returned(i)
      /\ AllWhitespace(input[i].text)
      /\ AllWhitespace(input[i].output_path)
      /\ result[i].kind = "Err"
      /\ result[i].val # MSG_EMPTY_TEXT
      /\ result[i].val # MSG_NO_OUTPUT

(***************************************************************************)
(* Claims about the classification of the child's result: checked under    *)
(* Spec.                                                                   *)
(***************************************************************************)
\* The captured bytes as text: an invalid byte reads as U+FFFD.
Decoded(bytes) ==
    [k \in 1 .. Len(bytes) |-> IF bytes[k] \in {"a", "\n"} THEN bytes[k] ELSE "uFFFD"]

\* s without its leading and trailing whitespace.
Trimmed(s) ==
    CHOOSE t \in {SubSeq(s, a, b) : a \in 1 .. (Len(s) + 1), b \in 0 .. Len(s)} :
        IsTrimOf(t, s)

\* The detail of a failed child as the precedence stderr, stdout, generic
\* message gives it.
DetailByPrecedence(cr) ==
    LET e == Trimmed(Decoded(cr.stderr))
        o == Trimmed(Decoded(cr.stdout))
    IN  IF e # <<>> THEN e
        ELSE IF o # <<>> THEN o
        ELSE <<"PowerShell finalizo con codigo", " ", "Some(", ToString(cr.code), ")">>

\* C14: after a non-zero exit status the failure is "Fallo al generar WAV: "
\* followed by the trimmed stderr if that is not empty, else by the trimmed
\* stdout if that is not empty, else by the generic message with the exit
\* code; stdout is not used beside a non-empty trimmed stderr and the
\* generic message appears only when both are empty after trimming.
C14_FailureDetailPrecedence ==
    \A i \in Invs :
        /\ Returned(i) /\ ExitedWith(i)
        /\ command_result[i].code # 0
        => /\ result[i].kind = "Err"
           /\ result[i].val =
                <<"Fallo al generar WAV:", " ">> \o DetailByPrecedence(command_result[i])
           /\ Contains(result[i].val, <<"PowerShell finalizo con codigo">>)
              <=> /\ AllWhitespace(command_result[i].stderr)
                  /\ AllWhitespace(command_result[i].stdout)

C14_Witness ==
    \E i \in Invs :
        /\ Returned(i) /\ ExitedWith(i)
        /\ command_result[i].code = 1
        /\ command_result[i].stderr = <<"\n", "\n">>
        /\ command_result[i].stdout = <<"a">>
        /\ result[i] = Err(<<"Fallo al generar WAV:", " ", "a">>)

(***************************************************************************)
(* Claims about the resolution of the voice, continued: checked under      *)
(* SpecScript.                                                             *)
(***************************************************************************)
\* The enabled installed voices whose culture, lower-cased, is the whole
\* lower-cased language tag.
ExactCultureVoices ==
    {k \in 1 .. Len(voices) :
       /\ voices[k].enabled
       /\ voices[k].culture # <<>>
       /\ LowerCulture(voices[k]) = [n \in 1 .. Len(language) |-> LowerChar(language[n])]}

\* C15: with no voice selected by name and a language tag, whatever the
\* order of the installed voices, an enabled voice whose culture is exactly
\* the lower-cased tag is the one selected when there is one, before any
\* enabled voice that matches only by the base and "-".
C15_ExactCultureBeatsPrefix ==
    /\ Resolved /\ ~voiceSelected
    /\ ~AllWhitespace(language)
    /\ ExactCultureVoices # {}
    => \E k \in ExactCultureVoices :
         /\ voiceMatch = <<voices[k]>>
         /\ synthVoice = <<voices[k].name>>

\* The engine accepts the voice name: an enabled installed voice has it.
VoiceNameAccepted ==
    /\ ~AllWhitespace(voiceName)
    /\ \E k \in 1 .. Len(voices) : voices[k].name = voiceName /\ voices[k].enabled

\* C16: the first match wins.  A voice name the engine accepts is the voice
\* of the synthesis whatever the language and the installed voices, and no
\* query by language runs; a query by language runs only with no voice
\* selected by name and a language that is not empty.
C16_ExplicitVoiceWins ==
    /\ VoiceNameAccepted
       => /\ queries = 0 /\ voiceMatch = <<>>
          /\ matchedBy \in {"none", "name"}
          /\ spc = "match" \/ Resolved
             => /\ voiceSelected
                /\ matchedBy = "name"
                /\ synthVoice = <<voiceName>>
          /\ spoken # <<>> => spoken = <<<<voiceName>>>>
    /\ queries > 0 => ~voiceSelected /\ ~AllWhitespace(language)
    /\ Resolved /\ ~voiceSelected /\ ~AllWhitespace(language) => queries > 0

C16_Witness ==
    /\ spc = "exited" /\ exitCode = <<0>>
    /\ Len(voices) = 2
    /\ language = <<"e", "s", "-", "M", "X">>
    /\ voices[1].enabled
    /\ voices[1].culture = <<<<"e", "s", "-", "M", "X">>>>
    /\ voices[2].enabled
    /\ voices[2].culture = <<<<"e", "n", "-", "U", "S">>>>
    /\ voiceName = voices[2].name
    /\ queries = 0
    /\ spoken = <<<<voiceName>>>>

\* No step of the resolution finds a voice: the voice name is empty or
\* rejected, and the language is empty or no enabled voice has a culture
\* that is the tag, begins with the base and "-", or is the base.
NoVoiceMatches ==
    /\ AllWhitespace(voiceName) \/ VoiceNameRejected
    /\ \/ AllWhitespace(language)
       \/ LanguageCandidates(TRUE) = {} /\ LanguageCandidates(FALSE) = {}

\* C17: when no step finds a voice the resolution raises no error: the
\* script does not end in the resolution, the engine keeps its default
\* voice and speaks with it, and a run that ends with status zero is a
\* Success of the export with the output path.
C17_NoMatchIsNoError ==
    NoVoiceMatches
    => /\ stderr # <<"SelectVoice: cannot set voice">>
       /\ spc = "match" \/ Resolved => ~voiceSelected
       /\ Resolved
          => /\ ~voiceSelected /\ voiceMatch = <<>> /\ matchedBy = "none"
             /\ synthVoice = <<>>
       /\ spoken # <<>> => spoken = <<<<>>>>
       /\ spc = "exited" /\ exitCode = <<0>>
          => /\ spoken = <<<<>>>>
             /\ Classify(Exited([code |-> 0, stdout |-> stdout, stderr |-> stderr]),
                         outPath) = [kind |-> "Ok", val |-> outPath]

C17_Witness ==
    /\ spc = "exited" /\ exitCode = <<0>>
    /\ Len(voices) = 2
    /\ voiceName = voices[1].name /\ ~voices[1].enabled
    /\ language = <<"e", "s", "-", "M", "X">>
    /\ voices[2].enabled
    /\ voices[2].culture = <<<<"e", "n", "-", "U", "S">>>>
    /\ queries = 2
    /\ synthVoice = <<>>
    /\ spoken = <<<<>>>>
    /\ stdout = outPath \o <<"\r", "\n">>

\* The directory the output path names exists, or the path names none.
ParentDirectoryExists ==
    LET cuts == {n \in 1 .. Len(outPath) : outPath[n] = "/"}
    IN  \/ cuts = {}
        \/ \E n \in cuts :
             /\ \A m \in cuts : m <= n
             /\ [k \in 1 .. (n - 1) |-> outPath[k]] \in dirs \cup {<<>>}

\* C18: the directory of the output path is made before the synthesis
\* begins.  While the step that makes it has not run, no voice is resolved
\* and no wave file is open; from the resolution of the voice on, and
\* whenever the wave file is open, the directory exists.
C18_DirectoryBeforeSynthesis ==
    /\ spc \in {"read", "mkdir"}
       => /\ ~voiceSelected /\ queries = 0 /\ synthVoice = <<>>
          /\ waveFile = <<>> /\ spoken = <<>>
    /\ spc \in {"select", "match", "output", "speak", "write"}
       => ParentDirectoryExists
    /\ waveFile # <<>> \/ spoken # <<>> => ParentDirectoryExists

C18_Witness ==
    /\ spc = "speak"
    /\ outPath = <<"d", "/", "o", ".", "w", "a", "v">>
    /\ waveFile = <<outPath>>
    /\ dirs = {<<"d">>}

(***************************************************************************)
(* Claims about the whole invocation, continued: checked under Spec.       *)
(***************************************************************************)
\* The outcome that the result of the child alone gives: the removal of
\* the staged file has no part in it.
OutcomeOfChild(cr, inp) ==
    IF cr.kind = "Err"
    THEN [kind |-> "Err",
          val |-> <<"No se pudo iniciar la exportacion de audio:", " ", cr.error>>]
    ELSE IF cr.code # 0
    THEN [kind |-> "Err",
          val |-> <<"Fallo al generar WAV:", " ">> \o DetailByPrecedence(cr)]
    ELSE [kind |-> "Ok",
          val |-> IF AllWhitespace(cr.stdout) THEN Trimmed(inp.output_path)
                  ELSE Trimmed(Decoded(cr.stdout))]

\* C19: a removal of the staged file that fails is not reported: whether
\* the removal succeeded or failed, the outcome is the one the result of
\* the child (spawn error, or exit status, stdout and stderr) gives.
C19_RemovalFailureSuppressed ==
    \A i \in Invs :
        Returned(i) /\ removed[i] \in {"ok", "err"}
        => result[i] = OutcomeOfChild(command_result[i], input[i])

C19_Witness ==
    \E i \in Invs :
        /\ Returned(i)
        /\ removed[i] = "err"
        /\ text_path[i] \in DOMAIN fs
        /\ ExitedWith(i) /\ command_result[i].code = 0
        /\ command_result[i].stdout = <<"a">>
        /\ result[i] = [kind |-> "Ok", val |-> <<"a">>]

\* C20: Ok is returned only when both validations passed, the write of the
\* staged text succeeded, the child was started and it ended with status
\* zero.  A write that fails returns Err with no child spawned, and after a
\* spawn error or a status other than zero the outcome is Err whatever
\* stdout holds.
C20_SuccessOnlyOnFullPath ==
    \A i \in Invs :
        /\ result[i].kind = "Ok"
           => /\ ~AllWhitespace(input[i].text)
              /\ ~AllWhitespace(input[i].output_path)
              /\ writes[i] = 1 /\ write_result[i] = "Ok"
              /\ spawns[i] = 1
              /\ command_result[i].kind = "Ok"
              /\ command_result[i].code = 0
        /\ write_result[i] = "Err"
           => /\ spawns[i] = 0 /\ command_result[i].kind = "none"
              /\ env[i] = <<>>
              /\ Returned(i)
              /\ result[i] =
                   [kind |-> "Err",
                    val |-> <<"No se pudo preparar el texto para audio:", " ", "os error">>]
        /\ /\ Returned(i)
           /\ \/ command_result[i].kind = "Err"
              \/ command_result[i].kind = "Ok" /\ command_result[i].code # 0
           => result[i].kind = "Err"

C20_Witness ==
    \E i \in Invs :
        /\ Returned(i)
        /\ write_result[i] = "Ok" /\ spawns[i] = 1
        /\ ExitedWith(i) /\ command_result[i].code = 1
        /\ command_result[i].stdout = <<"a">>
        /\ command_result[i].stderr = <<>>
        /\ result[i].kind = "Err"

=============================================================================
